---- MODULE Spec2Model ----
(***************************************************************************)
(* Model of the KFIFO ring buffer (kfifo.c / kfifo.h).                     *)
(*                                                                         *)
(* The handle KFIFO_Handle_t {in, out, mask, pool} is the record rb; the   *)
(* caller-owned storage rb.pool points to is mem, a function from physical *)
(* offsets 0 .. size-1 to bytes.  uint32_t arithmetic is modelled with     *)
(* CursorBits-bit unsigned integers (every result is taken % 2^CursorBits) *)
(* so that the overflow of the free-running cursors is reachable.          *)
(*                                                                         *)
(* No function of kfifo.c inspects a data byte, so the producer's data is  *)
(* the tagged stream 0, 1, 2, ... (% 2^CursorBits): the byte accepted when *)
(* the write cursor is c carries the value c.  A byte that is lost,        *)
(* duplicated, reordered or overwritten then shows as a wrong value.       *)
(* Storage handed to KFIFO_Init holds Junk, a value outside the stream.    *)
(*                                                                         *)
(* written / readout are history variables: the bytes accepted by          *)
(* successful writes and the bytes delivered by successful reads since the *)
(* last init/reset, with the already matched common prefix dropped (a      *)
(* delivered byte equal to the oldest accepted byte cancels it).  A run is *)
(* followed up to and including the first read that delivers a byte other  *)
(* than the oldest accepted one: readout is then not empty, and only       *)
(* KFIFO_Init and KFIFO_Reset, which clear the histories, go on.  streak   *)
(* counts the successful KFIFO_WriteByte calls since the buffer was made   *)
(* empty by init/reset while no call changed the buffer otherwise (-1      *)
(* after that).  linear tells that a KFIFO_Linear_*_Finish commit has      *)
(* happened since the last successful KFIFO_Init.  last records the most   *)
(* recent API call, its result and the storage accesses it made.           *)
(*                                                                         *)
(* Spec takes every API call as one atomic step of a single caller.        *)
(* SpecSPSC runs a producer and a consumer concurrently on the copying     *)
(* calls, one load or store of a shared location per step; prod and cons   *)
(* hold each side's position inside its call and stay Idle under Spec.     *)
(***************************************************************************)
EXTENDS Integers, Sequences, FiniteSets, TLC

CursorBits == 3          \* width W of the cursors and of every uint32_t value
MaxSize    == 4          \* largest size passed to KFIFO_Init
MaxLen     == 5          \* longest buffer passed to a bulk operation
MaxLog     == 5          \* cap on the number of accepted, undelivered bytes

Wrap  == 2 ^ CursorBits
Junk  == Wrap            \* the content of storage nobody has written yet
Byte  == 0 .. Wrap
NULL  == 0
POOL  == 1               \* the address of the caller's storage
Ptrs  == {NULL, POOL}

U32(x) == x % Wrap

RECURSIVE BitAnd(_, _)
BitAnd(a, b) ==
    IF a = 0 \/ b = 0 THEN 0
    ELSE (a % 2) * (b % 2) + 2 * BitAnd(a \div 2, b \div 2)

VARIABLES rb, mem, written, readout, streak, linear, last, prod, cons

vars == <<rb, mem, written, readout, streak, linear, last, prod, cons>>

(***************************************************************************)
(* static inline helpers, kfifo.c:19-70                                    *)
(***************************************************************************)
RB_SIZE(h)       == U32(h.mask + 1)
RB_USED(h)       == BitAnd(U32(h.in - h.out), h.mask)
RB_UNUSED(h)     == U32(RB_SIZE(h) - RB_USED(h))
RB_OFFSET_IN(h)  == BitAnd(h.in, h.mask)
RB_OFFSET_OUT(h) == BitAnd(h.out, h.mask)
(* RB_REMAIN_IN taken from the free-running cursor, not from its offset.   *)
RB_REMAIN_IN_RawCursor(h) == U32(RB_SIZE(h) - h.in)
RB_REMAIN_IN(h)  == U32(RB_SIZE(h) - RB_OFFSET_IN(h))
RB_REMAIN_OUT(h) == U32(RB_SIZE(h) - RB_OFFSET_OUT(h))
KFIFO_IsFull(h)  == RB_UNUSED(h) = 0
KFIFO_IsEmpty(h) == RB_USED(h) = 0

(***************************************************************************)
(* memcpy into the storage: n bytes of src, from its 0-based index s, to   *)
(* physical offsets d .. d+n-1.  Sequences are 1-based, hence the + 1.     *)
(***************************************************************************)
MemCpyIn(m, d, src, s, n) ==
    [i \in DOMAIN m |-> IF i >= d /\ i < d + n THEN src[s + (i - d) + 1] ELSE m[i]]

(* memcpy out of the storage: n bytes from physical offset s to the        *)
(* destination's 0-based index d.                                          *)
MemCpyOut(dst, d, m, s, n) ==
    [i \in DOMAIN dst |-> IF i - 1 >= d /\ i - 1 < d + n THEN m[s + (i - 1 - d)] ELSE dst[i]]

(***************************************************************************)
(* The API functions as functions of the handle h and the storage m.  acc  *)
(* lists the storage accesses of the call in order, each a contiguous run  *)
(* <<first physical offset, number of bytes>>: one per memcpy call or      *)
(* indexed access.                                                         *)
(***************************************************************************)

(* kfifo.c:72-83.  hnull: the handle pointer rb is NULL.                   *)
KFIFO_Init(h, hnull, pool, size) ==
    IF hnull \/ pool = NULL \/ BitAnd(size, U32(size - 1)) # 0
    THEN [ok |-> FALSE, rb |-> h]
    ELSE [ok |-> TRUE,
          rb |-> [in |-> 0, out |-> 0, mask |-> U32(size - 1), pool |-> pool]]

(* kfifo.c:85-96 *)
KFIFO_WriteByte(h, m, byte) ==
    IF KFIFO_IsFull(h)
    THEN [ok |-> FALSE, rb |-> h, mem |-> m, acc |-> <<>>]
    ELSE [ok |-> TRUE,
          rb |-> [h EXCEPT !.in = U32(@ + 1)],
          mem |-> [m EXCEPT ![RB_OFFSET_IN(h)] = byte],
          acc |-> <<<<RB_OFFSET_IN(h), 1>>>>]

(* kfifo.c:98-109.  byte: the caller's *byte before the call.              *)
KFIFO_ReadByte(h, m, byte) ==
    IF KFIFO_IsEmpty(h)
    THEN [ok |-> FALSE, rb |-> h, byte |-> byte, acc |-> <<>>]
    ELSE [ok |-> TRUE,
          rb |-> [h EXCEPT !.out = U32(@ + 1)],
          byte |-> m[RB_OFFSET_OUT(h)],
          acc |-> <<<<RB_OFFSET_OUT(h), 1>>>>]

(* KFIFO_Write_Buffer with the source pointer of the second memcpy not     *)
(* advanced past the bytes the first one took.                             *)
KFIFO_Write_Buffer_SourceRewound(h, m, buffer, size) ==
    IF RB_UNUSED(h) < size
    THEN [ok |-> FALSE, rb |-> h, mem |-> m, acc |-> <<>>]
    ELSE [ok |-> TRUE,
          rb |-> [h EXCEPT !.in = U32(@ + size)],
          mem |-> IF RB_REMAIN_IN(h) < size
                  THEN MemCpyIn(MemCpyIn(m, RB_OFFSET_IN(h), buffer, 0, RB_REMAIN_IN(h)),
                                0, buffer, 0, U32(size - RB_REMAIN_IN(h)))
                  ELSE MemCpyIn(m, RB_OFFSET_IN(h), buffer, 0, size),
          acc |-> IF RB_REMAIN_IN(h) < size
                  THEN << <<RB_OFFSET_IN(h), RB_REMAIN_IN(h)>>,
                          <<0, U32(size - RB_REMAIN_IN(h))>> >>
                  ELSE << <<RB_OFFSET_IN(h), size>> >>]

(* kfifo.c:111-130 *)
KFIFO_Write_Buffer(h, m, buffer, size) ==
    IF RB_UNUSED(h) < size
    THEN [ok |-> FALSE, rb |-> h, mem |-> m, acc |-> <<>>]
    ELSE [ok |-> TRUE,
          rb |-> [h EXCEPT !.in = U32(@ + size)],
          mem |-> IF RB_REMAIN_IN(h) < size
                  THEN MemCpyIn(MemCpyIn(m, RB_OFFSET_IN(h), buffer, 0, RB_REMAIN_IN(h)),
                                0, buffer, RB_REMAIN_IN(h), U32(size - RB_REMAIN_IN(h)))
                  ELSE MemCpyIn(m, RB_OFFSET_IN(h), buffer, 0, size),
          acc |-> IF RB_REMAIN_IN(h) < size
                  THEN << <<RB_OFFSET_IN(h), RB_REMAIN_IN(h)>>,
                          <<0, U32(size - RB_REMAIN_IN(h))>> >>
                  ELSE << <<RB_OFFSET_IN(h), size>> >>]

(* KFIFO_Write_Buffer_Truncated with a slip in the second memcpy: the     *)
(* part after the wrap is taken from the start of the source again.       *)
KFIFO_Write_Buffer_Truncated_BadSplit(h, m, buffer, size) ==
    LET space == RB_UNUSED(h)
        sz    == IF size > space THEN space ELSE size
    IN  IF sz = 0
        THEN [cnt |-> 0, rb |-> h, mem |-> m, acc |-> <<>>]
        ELSE [cnt |-> sz,
              rb |-> [h EXCEPT !.in = U32(@ + sz)],
              mem |-> IF RB_REMAIN_IN(h) < sz
                      THEN MemCpyIn(MemCpyIn(m, RB_OFFSET_IN(h), buffer, 0, RB_REMAIN_IN(h)),
                                    0, buffer, 0, U32(sz - RB_REMAIN_IN(h)))
                      ELSE MemCpyIn(m, RB_OFFSET_IN(h), buffer, 0, sz),
              acc |-> IF RB_REMAIN_IN(h) < sz
                      THEN << <<RB_OFFSET_IN(h), RB_REMAIN_IN(h)>>,
                              <<0, U32(sz - RB_REMAIN_IN(h))>> >>
                      ELSE << <<RB_OFFSET_IN(h), sz>> >>]

(* kfifo.c:132-163 *)
KFIFO_Write_Buffer_Truncated(h, m, buffer, size) ==
    LET space == RB_UNUSED(h)
        sz    == IF size > space THEN space ELSE size
    IN  IF sz = 0
        THEN [cnt |-> 0, rb |-> h, mem |-> m, acc |-> <<>>]
        ELSE [cnt |-> sz,
              rb |-> [h EXCEPT !.in = U32(@ + sz)],
              mem |-> IF RB_REMAIN_IN(h) < sz
                      THEN MemCpyIn(MemCpyIn(m, RB_OFFSET_IN(h), buffer, 0, RB_REMAIN_IN(h)),
                                    0, buffer, RB_REMAIN_IN(h), U32(sz - RB_REMAIN_IN(h)))
                      ELSE MemCpyIn(m, RB_OFFSET_IN(h), buffer, 0, sz),
              acc |-> IF RB_REMAIN_IN(h) < sz
                      THEN << <<RB_OFFSET_IN(h), RB_REMAIN_IN(h)>>,
                              <<0, U32(sz - RB_REMAIN_IN(h))>> >>
                      ELSE << <<RB_OFFSET_IN(h), sz>> >>]

(* kfifo.c:165-184.  buffer: the caller's destination before the call.     *)
KFIFO_Read_Buffer(h, m, buffer, size) ==
    IF RB_USED(h) < size
    THEN [ok |-> FALSE, rb |-> h, buffer |-> buffer, acc |-> <<>>]
    ELSE [ok |-> TRUE,
          rb |-> [h EXCEPT !.out = U32(@ + size)],
          buffer |-> IF RB_REMAIN_OUT(h) < size
                     THEN MemCpyOut(MemCpyOut(buffer, 0, m, RB_OFFSET_OUT(h), RB_REMAIN_OUT(h)),
                                    RB_REMAIN_OUT(h), m, 0, U32(size - RB_REMAIN_OUT(h)))
                     ELSE MemCpyOut(buffer, 0, m, RB_OFFSET_OUT(h), size),
          acc |-> IF RB_REMAIN_OUT(h) < size
                  THEN << <<RB_OFFSET_OUT(h), RB_REMAIN_OUT(h)>>,
                          <<0, U32(size - RB_REMAIN_OUT(h))>> >>
                  ELSE << <<RB_OFFSET_OUT(h), size>> >>]

(* kfifo.c:186-199.  KFIFO_Linear_Write returns pool + offset; the model   *)
(* keeps the offset.                                                       *)
KFIFO_Linear_Write_Rem(h)          == RB_REMAIN_IN(h)
KFIFO_Linear_Write(h)              == RB_OFFSET_IN(h)
KFIFO_Linear_Write_Finish(h, size) == [h EXCEPT !.in = U32(@ + size)]

(* kfifo.c:201-209 *)
KFIFO_Linear_Read_Rem(h)           == RB_REMAIN_OUT(h)
KFIFO_Linear_Read(h)               == RB_OFFSET_OUT(h)

(* KFIFO_Linear_Read_Finish advancing the write cursor, as                 *)
(* KFIFO_Linear_Write_Finish does.                                         *)
KFIFO_Linear_Read_Finish_WrongCursor(h, size) == [h EXCEPT !.in = U32(@ + size)]

(* kfifo.c:210-213 *)
KFIFO_Linear_Read_Finish(h, size) == [h EXCEPT !.out = U32(@ + size)]

(* kfifo.c:215-218 *)
KFIFO_GetLen(h) == RB_USED(h)

(* kfifo.c:220-229 *)
KFIFO_Peek(h, m, byte) ==
    IF KFIFO_IsEmpty(h)
    THEN [ok |-> FALSE, byte |-> byte, acc |-> <<>>]
    ELSE [ok |-> TRUE, byte |-> m[RB_OFFSET_OUT(h)], acc |-> <<<<RB_OFFSET_OUT(h), 1>>>>]

(* kfifo.c:231-235 *)
KFIFO_Reset(h) == [h EXCEPT !.in = 0, !.out = 0]

(***************************************************************************)
(* History bookkeeping.                                                    *)
(***************************************************************************)
RECURSIVE Cancel(_, _)
Cancel(w, r) ==
    IF w # <<>> /\ r # <<>> /\ Head(w) = Head(r)
    THEN Cancel(Tail(w), Tail(r))
    ELSE <<w, r>>

(* The histories after the bytes d have been delivered to the reader: d is *)
(* matched against the oldest accepted bytes; once a delivered byte failed *)
(* to match, nothing is cancelled any more.                                *)
Deliver(w, r, d) == IF r # <<>> THEN <<w, r \o d>> ELSE Cancel(w, d)

(* The bytes delivered so far are the oldest accepted bytes, in order.    *)
InOrder == readout = <<>>

(* The next n bytes the producer offers when the write cursor is c.       *)
Stream(c, n) == [i \in 1 .. n |-> U32(c + i - 1)]
Fill(n, b) == [i \in 1 .. n |-> b]
Region(m, off, n) == [i \in 1 .. n |-> m[off + i - 1]]

(* The record of an API call: its name, its length argument, the boolean   *)
(* it returned, the count it returned (0 / FALSE where it has none), the   *)
(* caller's output buffer after the call, further arguments and the        *)
(* storage accesses the call made.                                         *)
Call(op, n, ok, cnt, out) ==
    [op |-> op, n |-> n, ok |-> ok, cnt |-> cnt, out |-> out, args |-> <<>>,
     acc |-> <<>>]

Initialised == rb.pool # NULL

(* The handle is initialised and the run has not mis-delivered a byte.    *)
Live == Initialised /\ InOrder

(* r is a prefix of w.                                                     *)
IsPrefix(r, w) == Len(r) <= Len(w) /\ SubSeq(w, 1, Len(r)) = r

(* A producer or a consumer between two calls.  Inside a call: pc is the   *)
(* position in the function, op the function, n its length argument (as    *)
(* clamped), j the bytes copied so far and buf the consumer's destination  *)
(* bytes so far.                                                           *)
Idle == [pc |-> "idle", op |-> "none", n |-> 0, j |-> 0, buf |-> <<>>]

(***************************************************************************)
(* Initial state: a zeroed handle that is not bound to any storage.       *)
(***************************************************************************)
Init ==
    /\ rb = [in |-> 0, out |-> 0, mask |-> 0, pool |-> NULL]
    /\ mem = [i \in 0 .. -1 |-> 0]
    /\ written = <<>>
    /\ readout = <<>>
    /\ streak = -1
    /\ linear = FALSE
    /\ last = Call("none", 0, FALSE, 0, <<>>)
    /\ prod = Idle
    /\ cons = Idle

(***************************************************************************)
(* One action per API call.                                                *)
(***************************************************************************)
(* The arguments of KFIFO_Init: <<rb is NULL, pool, size>>.  Every size    *)
(* with a handle and a pool; with a null handle or pool the test at        *)
(* kfifo.c:74 does not get to the size (a zero and a good one are given).  *)
InitArgs ==
    {<<FALSE, POOL, size>> : size \in 0 .. MaxSize}
        \cup {<<hnull, p, size>> : hnull \in BOOLEAN, p \in Ptrs, size \in {0, 1}}

DoInit ==
    \E a \in InitArgs :
        LET hnull == a[1]
            p     == a[2]
            size  == a[3]
            r     == KFIFO_Init(rb, hnull, p, size)
        IN
        /\ rb' = r.rb
        /\ last' = [Call("Init", size, r.ok, 0, <<>>) EXCEPT !.args = <<hnull, p>>]
        /\ UNCHANGED <<prod, cons>>
        /\ IF r.ok
           THEN /\ mem' = [i \in 0 .. size - 1 |-> Junk]
                /\ written' = <<>>
                /\ readout' = <<>>
                /\ streak' = 0
                /\ linear' = FALSE
           ELSE /\ UNCHANGED <<mem, written, readout, linear>>
                /\ streak' = -1

DoWriteByte ==
    /\ Live
    /\ UNCHANGED <<linear, prod, cons>>
    /\ LET b == Stream(rb.in, 1)[1]
           r == KFIFO_WriteByte(rb, mem, b)
       IN
        /\ rb' = r.rb
        /\ mem' = r.mem
        /\ written' = IF r.ok THEN Append(written, b) ELSE written
        /\ Len(written') <= MaxLog
        /\ streak' = IF streak >= 0 /\ r.ok THEN streak + 1 ELSE streak
        /\ last' = [Call("WriteByte", 1, r.ok, 0, <<>>) EXCEPT !.acc = r.acc]
    /\ UNCHANGED readout

DoReadByte ==
    /\ Live
    /\ UNCHANGED <<linear, prod, cons>>
    /\ LET r == KFIFO_ReadByte(rb, mem, Junk)
            h == Deliver(written, readout, IF r.ok THEN <<r.byte>> ELSE <<>>)
        IN
        /\ rb' = r.rb
        /\ written' = h[1]
        /\ readout' = h[2]
        /\ last' = [Call("ReadByte", 1, r.ok, 0, <<r.byte>>) EXCEPT !.acc = r.acc]
    /\ streak' = -1
    /\ UNCHANGED mem

DoWriteBuffer ==
    /\ Live
    /\ UNCHANGED <<linear, prod, cons>>
    /\ \E n \in 0 .. MaxLen :
        LET buffer == Stream(rb.in, n)
            r == KFIFO_Write_Buffer(rb, mem, buffer, n)
        IN
        /\ rb' = r.rb
        /\ mem' = r.mem
        /\ written' = IF r.ok THEN written \o buffer ELSE written
        /\ Len(written') <= MaxLog
        /\ last' = [Call("Write_Buffer", n, r.ok, 0, <<>>) EXCEPT !.acc = r.acc]
    /\ streak' = -1
    /\ UNCHANGED readout

DoWriteBufferTruncated ==
    /\ Live
    /\ UNCHANGED <<linear, prod, cons>>
    /\ \E n \in 0 .. MaxLen :
        LET buffer == Stream(rb.in, n)
            r == KFIFO_Write_Buffer_Truncated(rb, mem, buffer, n)
        IN
        /\ rb' = r.rb
        /\ mem' = r.mem
        /\ written' = written \o SubSeq(buffer, 1, r.cnt)
        /\ Len(written') <= MaxLog
        /\ last' = [Call("Write_Buffer_Truncated", n, FALSE, r.cnt, <<>>) EXCEPT !.acc = r.acc]
    /\ streak' = -1
    /\ UNCHANGED readout

DoReadBuffer ==
    /\ Live
    /\ UNCHANGED <<linear, prod, cons>>
    /\ \E n \in 0 .. MaxLen :
        LET r == KFIFO_Read_Buffer(rb, mem, Fill(n, Junk), n)
            h == Deliver(written, readout, IF r.ok THEN r.buffer ELSE <<>>)
        IN
        /\ rb' = r.rb
        /\ written' = h[1]
        /\ readout' = h[2]
        /\ last' = [Call("Read_Buffer", n, r.ok, 0, r.buffer) EXCEPT !.acc = r.acc]
    /\ streak' = -1
    /\ UNCHANGED mem

DoLinearWriteRem ==
    /\ Live
    /\ UNCHANGED <<linear, prod, cons>>
    /\ last' = Call("Linear_Write_Rem", 0, FALSE, KFIFO_Linear_Write_Rem(rb), <<>>)
    /\ streak' = -1
    /\ UNCHANGED <<rb, mem, written, readout>>

DoLinearWrite ==
    /\ Live
    /\ UNCHANGED <<linear, prod, cons>>
    /\ last' = Call("Linear_Write", 0, FALSE, KFIFO_Linear_Write(rb), <<>>)
    /\ streak' = -1
    /\ UNCHANGED <<rb, mem, written, readout>>

(* The producer was handed a region of last.cnt bytes; it stores n of them *)
(* at the address KFIFO_Linear_Write returns and commits n.                *)
DoLinearWriteFinish ==
    /\ Live
    /\ linear' = TRUE
    /\ UNCHANGED <<prod, cons>>
    /\ last.op = "Linear_Write_Rem"
    /\ \E n \in 0 .. last.cnt :
        LET data == Stream(rb.in, n) IN
        /\ mem' = MemCpyIn(mem, KFIFO_Linear_Write(rb), data, 0, n)
        /\ rb' = KFIFO_Linear_Write_Finish(rb, n)
        /\ written' = written \o data
        /\ Len(written') <= MaxLog
        /\ last' = Call("Linear_Write_Finish", n, FALSE, last.cnt, <<>>)
    /\ streak' = -1
    /\ UNCHANGED readout

DoLinearReadRem ==
    /\ Live
    /\ UNCHANGED <<linear, prod, cons>>
    /\ last' = Call("Linear_Read_Rem", 0, FALSE, KFIFO_Linear_Read_Rem(rb), <<>>)
    /\ streak' = -1
    /\ UNCHANGED <<rb, mem, written, readout>>

DoLinearRead ==
    /\ Live
    /\ UNCHANGED <<linear, prod, cons>>
    /\ last' = Call("Linear_Read", 0, FALSE, KFIFO_Linear_Read(rb), <<>>)
    /\ streak' = -1
    /\ UNCHANGED <<rb, mem, written, readout>>

(* The consumer was handed a region of last.cnt bytes; it takes n of them  *)
(* from the address KFIFO_Linear_Read returns and commits n.               *)
DoLinearReadFinish ==
    /\ Live
    /\ linear' = TRUE
    /\ UNCHANGED <<prod, cons>>
    /\ last.op = "Linear_Read_Rem"
    /\ \E n \in 0 .. last.cnt :
        LET d == Region(mem, KFIFO_Linear_Read(rb), n)
            h == Deliver(written, readout, d)
        IN
        /\ rb' = KFIFO_Linear_Read_Finish(rb, n)
        /\ written' = h[1]
        /\ readout' = h[2]
        /\ last' = Call("Linear_Read_Finish", n, FALSE, last.cnt, d)
    /\ streak' = -1
    /\ UNCHANGED mem

DoGetLen ==
    /\ Live
    /\ UNCHANGED <<linear, prod, cons>>
    /\ last' = Call("GetLen", 0, FALSE, KFIFO_GetLen(rb), <<>>)
    /\ streak' = -1
    /\ UNCHANGED <<rb, mem, written, readout>>

DoPeek ==
    /\ Live
    /\ UNCHANGED <<linear, prod, cons>>
    /\ LET r == KFIFO_Peek(rb, mem, Junk) IN
        last' = [Call("Peek", 1, r.ok, 0, <<r.byte>>) EXCEPT !.acc = r.acc]
    /\ streak' = -1
    /\ UNCHANGED <<rb, mem, written, readout>>

DoReset ==
    /\ Initialised
    /\ UNCHANGED <<linear, prod, cons>>
    /\ rb' = KFIFO_Reset(rb)
    /\ written' = <<>>
    /\ readout' = <<>>
    /\ streak' = 0
    /\ last' = Call("Reset", 0, FALSE, 0, <<>>)
    /\ UNCHANGED mem

Next ==
    \/ DoInit
    \/ DoWriteByte
    \/ DoReadByte
    \/ DoWriteBuffer
    \/ DoWriteBufferTruncated
    \/ DoReadBuffer
    \/ DoLinearWriteRem
    \/ DoLinearWrite
    \/ DoLinearWriteFinish
    \/ DoLinearReadRem
    \/ DoLinearRead
    \/ DoLinearReadFinish
    \/ DoGetLen
    \/ DoPeek
    \/ DoReset

Spec == Init /\ [][Next]_vars

(***************************************************************************)
(* One producer and one consumer running concurrently on one handle.       *)
(* Each step is one load or store of a shared location (in, out, a storage *)
(* byte) under sequential consistency; there is no KFIFO_Reset.  The       *)
(* producer is the only writer of in and the consumer the only writer of   *)
(* out, so a function's loads of its own cursor return the current value   *)
(* and are folded into its next step; the load of the other side's cursor  *)
(* is the step at which the size test is made.  memcpy is taken to copy    *)
(* byte by byte in ascending order.                                        *)
(***************************************************************************)
SizesSPSC ==
    {a[3] : a \in {x \in InitArgs :
        KFIFO_Init([in |-> 0, out |-> 0, mask |-> 0, pool |-> NULL], x[1], x[2], x[3]).ok}}

(* The state after a successful KFIFO_Init, both sides between calls.      *)
InitSPSC ==
    /\ \E size \in SizesSPSC :
        /\ rb = KFIFO_Init([in |-> 0, out |-> 0, mask |-> 0, pool |-> NULL],
                           FALSE, POOL, size).rb
        /\ mem = [i \in 0 .. size - 1 |-> Junk]
    /\ written = <<>>
    /\ readout = <<>>
    /\ streak = -1
    /\ linear = FALSE
    /\ last = Call("none", 0, FALSE, 0, <<>>)
    /\ prod = Idle
    /\ cons = Idle

(* The physical offset of source byte j of a bulk write: the first memcpy  *)
(* covers j < RB_REMAIN_IN at RB_OFFSET_IN + j, the second the rest from   *)
(* offset 0 (kfifo.c:119-127, 150-158; KFIFO_WriteByte has j = 0).         *)
ProducerSlot(h, j) ==
    IF j < RB_REMAIN_IN(h) THEN RB_OFFSET_IN(h) + j ELSE j - RB_REMAIN_IN(h)

(* The physical offset of destination byte j of a bulk read                *)
(* (kfifo.c:173-181; KFIFO_ReadByte and KFIFO_Peek have j = 0).            *)
ConsumerSlot(h, j) ==
    IF j < RB_REMAIN_OUT(h) THEN RB_OFFSET_OUT(h) + j ELSE j - RB_REMAIN_OUT(h)

(* A call that copies n bytes goes on to copy them, or with n = 0 straight *)
(* to the cursor update.                                                   *)
Enter(op, n) ==
    [pc |-> IF n = 0 THEN "commit" ELSE "copy", op |-> op, n |-> n, j |-> 0, buf |-> <<>>]

FrameProducer == UNCHANGED <<written, readout, streak, linear, last, cons>>
FrameConsumer == UNCHANGED <<mem, streak, linear, last, prod>>

(* KFIFO_WriteByte up to its test: if (KFIFO_IsFull(rb)) return false.     *)
P_WriteByte_Check ==
    /\ InOrder
    /\ prod.pc = "idle"
    /\ Len(written) + 1 <= MaxLog
    /\ prod' = IF KFIFO_IsFull(rb) THEN Idle ELSE Enter("WriteByte", 1)
    /\ UNCHANGED <<rb, mem>>
    /\ FrameProducer

(* KFIFO_Write_Buffer up to its test: if (RB_UNUSED(rb) < size) return     *)
(* false.                                                                  *)
P_WriteBuffer_Check ==
    /\ InOrder
    /\ prod.pc = "idle"
    /\ \E n \in 0 .. MaxLen :
        /\ Len(written) + n <= MaxLog
        /\ prod' = IF RB_UNUSED(rb) < n THEN Idle ELSE Enter("Write_Buffer", n)
    /\ UNCHANGED <<rb, mem>>
    /\ FrameProducer

(* KFIFO_Write_Buffer_Truncated up to its tests: space = RB_UNUSED(rb);    *)
(* if (size > space) size = space; if (size == 0) return 0.                *)
P_Truncated_Check ==
    /\ InOrder
    /\ prod.pc = "idle"
    /\ \E n \in 0 .. MaxLen :
        LET space == RB_UNUSED(rb)
            sz    == IF n > space THEN space ELSE n
        IN
        /\ Len(written) + sz <= MaxLog
        /\ prod' = IF sz = 0 THEN Idle ELSE Enter("Write_Buffer_Truncated", sz)
    /\ UNCHANGED <<rb, mem>>
    /\ FrameProducer

(* The store of one storage byte by the producer.                          *)
P_Store ==
    /\ InOrder
    /\ prod.pc = "copy"
    /\ mem' = [mem EXCEPT ![ProducerSlot(rb, prod.j)] = Stream(rb.in, prod.n)[prod.j + 1]]
    /\ prod' = [prod EXCEPT !.j = @ + 1,
                            !.pc = IF prod.j + 1 = prod.n THEN "commit" ELSE "copy"]
    /\ UNCHANGED rb
    /\ FrameProducer

(* The store of in: rb->in++ or rb->in += size.                            *)
P_Commit ==
    /\ InOrder
    /\ prod.pc = "commit"
    /\ rb' = [rb EXCEPT !.in = U32(@ + prod.n)]
    /\ written' = written \o Stream(rb.in, prod.n)
    /\ prod' = Idle
    /\ UNCHANGED <<mem, readout, streak, linear, last, cons>>

(* KFIFO_ReadByte up to its test: if (KFIFO_IsEmpty(rb)) return false.     *)
C_ReadByte_Check ==
    /\ InOrder
    /\ cons.pc = "idle"
    /\ cons' = IF KFIFO_IsEmpty(rb) THEN Idle ELSE Enter("ReadByte", 1)
    /\ UNCHANGED <<rb, written, readout>>
    /\ FrameConsumer

(* KFIFO_Peek up to its test.                                              *)
C_Peek_Check ==
    /\ InOrder
    /\ cons.pc = "idle"
    /\ cons' = IF KFIFO_IsEmpty(rb) THEN Idle ELSE Enter("Peek", 1)
    /\ UNCHANGED <<rb, written, readout>>
    /\ FrameConsumer

(* KFIFO_Read_Buffer up to its test: if (RB_USED(rb) < size) return false. *)
C_ReadBuffer_Check ==
    /\ InOrder
    /\ cons.pc = "idle"
    /\ \E n \in 0 .. MaxLen :
        cons' = IF RB_USED(rb) < n THEN Idle ELSE Enter("Read_Buffer", n)
    /\ UNCHANGED <<rb, written, readout>>
    /\ FrameConsumer

(* The load of one storage byte by the consumer.                           *)
C_Load ==
    /\ InOrder
    /\ cons.pc = "copy"
    /\ cons' = [cons EXCEPT !.buf = Append(@, mem[ConsumerSlot(rb, cons.j)]),
                            !.j = @ + 1,
                            !.pc = IF cons.j + 1 = cons.n THEN "commit" ELSE "copy"]
    /\ UNCHANGED <<rb, written, readout>>
    /\ FrameConsumer

(* The store of out: rb->out++ or rb->out += size, and the return of the   *)
(* bytes to the caller; KFIFO_Peek returns its byte and stores nothing.    *)
C_Commit ==
    /\ InOrder
    /\ cons.pc = "commit"
    /\ IF cons.op = "Peek"
       THEN /\ UNCHANGED <<rb, written>>
            /\ readout' = IF IsPrefix(cons.buf, written) THEN readout ELSE cons.buf
       ELSE LET h == Deliver(written, readout, cons.buf) IN
            /\ rb' = [rb EXCEPT !.out = U32(@ + cons.n)]
            /\ written' = h[1]
            /\ readout' = h[2]
    /\ cons' = Idle
    /\ FrameConsumer

NextSPSC ==
    \/ P_WriteByte_Check
    \/ P_WriteBuffer_Check
    \/ P_Truncated_Check
    \/ P_Store
    \/ P_Commit
    \/ C_ReadByte_Check
    \/ C_Peek_Check
    \/ C_ReadBuffer_Check
    \/ C_Load
    \/ C_Commit

SpecSPSC == InitSPSC /\ [][NextSPSC]_vars

(***************************************************************************)
(* Properties.                                                             *)
(***************************************************************************)

(* Bytes accepted and not yet delivered, by the history variables.         *)
Occupied == Len(written) - Len(readout)

IsPow2(x) == \E k \in 0 .. CursorBits - 1 : x = 2 ^ k

(* The storage offsets that hold the accepted, undelivered bytes.          *)
UnreadOffsets == {BitAnd(U32(rb.out + i), rb.mask) : i \in 0 .. Occupied - 1}

(* C1: FIFO.  Under the copying operations alone, the bytes delivered by   *)
(* successful reads are at every point a prefix of the bytes accepted by   *)
(* successful writes (the histories have their matched common prefix       *)
(* dropped, which preserves the prefix relation).                          *)
C1_FIFO == (Initialised /\ ~linear) => IsPrefix(readout, written)

(* C2: full rejection.  Starting empty with no reads in between, the       *)
(* KFIFO_WriteByte calls number 1 .. C return true and call number C+1     *)
(* returns false, changes neither the cursors nor the storage and leaves   *)
(* the buffer full (free = 0); a KFIFO_WriteByte that follows a successful *)
(* KFIFO_ReadByte returns true.                                            *)
C2_FullRejection ==
    [][(last'.op = "WriteByte" /\ RB_SIZE(rb) >= 1) =>
         /\ (streak >= 0 /\ streak < RB_SIZE(rb)) => last'.ok
         /\ streak = RB_SIZE(rb) =>
                /\ ~last'.ok
                /\ rb' = rb
                /\ mem' = mem
                /\ RB_UNUSED(rb') = 0
         /\ (last.op = "ReadByte" /\ last.ok) => last'.ok]_vars

(* C3: in every state reached from a successful KFIFO_Init through the     *)
(* copying operations, KFIFO_GetLen returns the number of bytes accepted   *)
(* minus the number of bytes delivered since the last init/reset.          *)
C3_GetLenIsOccupied == (Initialised /\ ~linear) => KFIFO_GetLen(rb) = Occupied

(* C4: wraparound round trip.  On an empty buffer of capacity C a          *)
(* KFIFO_Write_Buffer of C bytes succeeds, and the KFIFO_Read_Buffer of C  *)
(* bytes that follows it succeeds and returns those C bytes in order.      *)
C4_RoundTrip ==
    [][/\ (/\ last'.op = "Write_Buffer" /\ last'.n = RB_SIZE(rb) /\ RB_SIZE(rb) >= 1
           /\ written = <<>> /\ readout = <<>>) => last'.ok
       /\ (/\ last.op = "Write_Buffer" /\ last.ok /\ last.n = RB_SIZE(rb) /\ RB_SIZE(rb) >= 1
           /\ Len(written) = RB_SIZE(rb) /\ readout = <<>>
           /\ last'.op = "Read_Buffer" /\ last'.n = RB_SIZE(rb))
          => (last'.ok /\ last'.out = written)]_vars

(* C5: KFIFO_Init returns false and leaves the handle unmodified when the  *)
(* handle or the pool is null, or size is zero, or size is not a power of  *)
(* two; otherwise it returns true with in = 0, out = 0, mask = size - 1    *)
(* and pool bound to the given storage.                                    *)
C5_InitValidation ==
    [][last'.op = "Init" =>
         LET hnull == last'.args[1]
             p     == last'.args[2]
             size  == last'.n
             bad   == hnull \/ p = NULL \/ size = 0 \/ ~IsPow2(size)
         IN  /\ bad => (~last'.ok /\ rb' = rb)
             /\ ~bad => /\ last'.ok
                        /\ rb' = [in |-> 0, out |-> 0, mask |-> size - 1, pool |-> p]]_vars

(* C6: all-or-nothing bulk write.  KFIFO_Write_Buffer(n) returns true iff  *)
(* capacity minus occupied bytes is at least n; when it returns false the  *)
(* handle and the storage are unchanged; when it returns true, in has      *)
(* advanced by n (mod 2^W) and out and mask are unchanged.                 *)
C6_BulkWriteAllOrNothing ==
    [][(last'.op = "Write_Buffer" /\ ~linear) =>
         /\ last'.ok <=> (RB_SIZE(rb) - Occupied >= last'.n)
         /\ ~last'.ok => (rb' = rb /\ mem' = mem)
         /\ last'.ok => rb' = [rb EXCEPT !.in = U32(rb.in + last'.n)]]_vars

(* C7: all-or-nothing bulk read.  KFIFO_Read_Buffer(n) returns true iff at *)
(* least n bytes are stored and unread; when it returns false the handle,  *)
(* the storage and the destination are unchanged; when it returns true the *)
(* destination holds the n oldest unread bytes in write order,             *)
(* destination[i] being the storage byte at offset (out + i) AND mask, out *)
(* has advanced by n and in is unchanged.                                  *)
C7_BulkReadAllOrNothing ==
    [][(last'.op = "Read_Buffer" /\ ~linear) =>
         LET n == last'.n IN
         /\ last'.ok <=> (Occupied >= n)
         /\ ~last'.ok => (rb' = rb /\ mem' = mem /\ last'.out = Fill(n, Junk))
         /\ last'.ok =>
                /\ IsPrefix(last'.out, written)
                /\ Len(last'.out) = n
                /\ \A i \in 0 .. n - 1 :
                       last'.out[i + 1] = mem[BitAnd(U32(rb.out + i), rb.mask)]
                /\ rb' = [rb EXCEPT !.out = U32(rb.out + n)]
                /\ mem' = mem]_vars

(* C8: truncated write clamps to the free space.  With n greater than the  *)
(* free space f (capacity minus occupied bytes) the call stores the first  *)
(* f bytes of the source, advances in by f and returns f; when the buffer  *)
(* already holds capacity bytes it changes nothing and returns 0; it never *)
(* overwrites a stored, unread byte.                                       *)
C8_TruncatedClamps ==
    [][(last'.op = "Write_Buffer_Truncated" /\ ~linear) =>
         LET f   == RB_SIZE(rb) - Occupied
             src == Stream(rb.in, last'.n)
         IN  /\ (last'.n > f /\ f >= 0) =>
                    /\ last'.cnt = f
                    /\ rb' = [rb EXCEPT !.in = U32(rb.in + f)]
                    /\ \A i \in 0 .. f - 1 :
                           mem'[BitAnd(U32(rb.in + i), rb.mask)] = src[i + 1]
                    /\ f = 0 => mem' = mem
             /\ \A o \in UnreadOffsets : mem'[o] = mem[o]]_vars

(* C9: when n is not greater than the free space, the truncated write and  *)
(* the bulk write leave, from the same state and for the same source, the  *)
(* same in, out and storage, and the truncated call returns n exactly when *)
(* the bulk call returns true.  The free space is free() = size - used()   *)
(* as the code computes it, or the capacity minus the occupied bytes.      *)
C9_TruncatedEqualsBulk ==
    [][(/\ last'.op = "Write_Buffer_Truncated"
        /\ \/ last'.n <= RB_UNUSED(rb)
           \/ (~linear /\ last'.n <= RB_SIZE(rb) - Occupied)) =>
         LET b == KFIFO_Write_Buffer(rb, mem, Stream(rb.in, last'.n), last'.n)
         IN  /\ rb' = b.rb
             /\ mem' = b.mem
             /\ (last'.cnt = last'.n) <=> b.ok]_vars

(* A truncated write of n >= 2 bytes that fitted and was split at the      *)
(* physical end of the storage.                                            *)
C9_Witness ==
    /\ last.op = "Write_Buffer_Truncated"
    /\ last.n >= 2
    /\ last.cnt = last.n
    /\ RB_OFFSET_IN(rb) > 0
    /\ RB_OFFSET_IN(rb) < last.n

(* C10: linear write commit accounting.  When the producer commits with    *)
(* KFIFO_Linear_Write_Finish the length KFIFO_Linear_Write_Rem returned,   *)
(* KFIFO_GetLen is afterwards exactly that length greater than before.     *)
C10_LinearCommitAccounting ==
    [][(last'.op = "Linear_Write_Finish" /\ last'.n = last'.cnt) =>
         KFIFO_GetLen(rb') = KFIFO_GetLen(rb) + last'.n]_vars

(* C11: the linear write region is safe to fill.  The length               *)
(* KFIFO_Linear_Write_Rem returns is not greater than the free space       *)
(* (capacity minus occupied bytes), and a producer that stores up to that  *)
(* many bytes at the address KFIFO_Linear_Write returns and commits them   *)
(* overwrites no stored, unread byte.                                      *)
C11_LinearWriteRegionFree ==
    [][/\ last'.op = "Linear_Write_Rem" => last'.cnt <= RB_SIZE(rb) - Occupied
       /\ last'.op = "Linear_Write_Finish" =>
              \A o \in UnreadOffsets : mem'[o] = mem[o]]_vars

(* C12: the linear write region never crosses the wrap boundary.  In every *)
(* reachable state the region KFIFO_Linear_Write / KFIFO_Linear_Write_Rem  *)
(* describe starts at physical offset in AND mask, its length is           *)
(* size - (in AND mask) and at least 1, offset plus length is not greater  *)
(* than size, and neither call changes in, out, mask, pool or the storage. *)
C12_LinearWriteRegionShape ==
    [][last'.op \in {"Linear_Write_Rem", "Linear_Write"} =>
         LET off == KFIFO_Linear_Write(rb)
             len == KFIFO_Linear_Write_Rem(rb)
         IN  /\ last'.cnt = (IF last'.op = "Linear_Write" THEN off ELSE len)
             /\ off = BitAnd(rb.in, rb.mask)
             /\ len = RB_SIZE(rb) - BitAnd(rb.in, rb.mask)
             /\ len >= 1
             /\ off + len <= RB_SIZE(rb)
             /\ rb' = rb
             /\ mem' = mem]_vars

(* C13: KFIFO_Peek is non-consuming.  On an empty buffer KFIFO_Peek and    *)
(* KFIFO_ReadByte both return false and leave the cursors, the storage and *)
(* the caller's output byte unchanged; on a buffer that holds unread bytes *)
(* KFIFO_Peek returns true with the byte the KFIFO_ReadByte that follows   *)
(* it returns; KFIFO_Peek leaves in, out and the storage unchanged.        *)
C13_PeekNonConsuming ==
    [][(last'.op = "Peek" /\ ~linear) =>
         LET rd == KFIFO_ReadByte(rb', mem', Junk) IN
         /\ rb' = rb
         /\ mem' = mem
         /\ Occupied = 0 =>
                /\ ~last'.ok
                /\ last'.out = <<Junk>>
                /\ ~rd.ok
                /\ rd.rb = rb
                /\ rd.byte = Junk
         /\ Occupied > 0 =>
                /\ last'.ok
                /\ rd.ok
                /\ last'.out = <<rd.byte>>]_vars

(* C14: reset.  KFIFO_Reset, from any reachable state, sets in and out to  *)
(* zero and leaves mask, pool and the storage unchanged, so that           *)
(* KFIFO_GetLen returns 0 and KFIFO_ReadByte, KFIFO_Peek and every         *)
(* KFIFO_Read_Buffer of n >= 1 bytes fail right after it; the bytes a bulk *)
(* write stores right after the reset lie at the physical offsets 0, 1,    *)
(* ... and are read back in that order.                                    *)
C14_Reset ==
    [][/\ last'.op = "Reset" =>
              /\ rb' = [rb EXCEPT !.in = 0, !.out = 0]
              /\ mem' = mem
              /\ KFIFO_GetLen(rb') = 0
              /\ ~KFIFO_ReadByte(rb', mem', Junk).ok
              /\ ~KFIFO_Peek(rb', mem', Junk).ok
              /\ \A n \in 1 .. MaxLen :
                     ~KFIFO_Read_Buffer(rb', mem', Fill(n, Junk), n).ok
       /\ (last.op = "Reset" /\ last'.op = "Write_Buffer" /\ last'.ok) =>
              LET n   == last'.n
                  src == Stream(0, n)
                  rd  == KFIFO_Read_Buffer(rb', mem', Fill(n, Junk), n)
              IN  /\ \A i \in 0 .. n - 1 : mem'[i] = src[i + 1]
                  /\ rd.ok
                  /\ rd.buffer = src]_vars

(* C16: occupancy invariant.  In every state reached from a successful     *)
(* KFIFO_Init through KFIFO_WriteByte, KFIFO_ReadByte, KFIFO_Write_Buffer, *)
(* KFIFO_Write_Buffer_Truncated, KFIFO_Read_Buffer, KFIFO_Peek and         *)
(* KFIFO_Reset, (in - out) mod 2^W lies between 0 and the capacity: the    *)
(* read cursor never passes the write cursor and the write cursor is never *)
(* more than capacity ahead of the read cursor.                            *)
C16_OccupancyInvariant ==
    (Initialised /\ ~linear) => U32(rb.in - rb.out) \in 0 .. RB_SIZE(rb)

(* C17: split-at-wrap placement.  A successful KFIFO_Write_Buffer of n     *)
(* bytes, or a KFIFO_Write_Buffer_Truncated that stores n >= 1 bytes,      *)
(* stores source byte i at physical offset (in + i) AND mask for every     *)
(* i < n, with one contiguous copy when n <= size - (in AND mask) and      *)
(* otherwise with exactly two, the first ending at the physical end of the *)
(* storage and the second starting at offset 0; every other storage byte   *)
(* is unchanged.                                                           *)
C17_SplitAtWrap ==
    [][(\/ last'.op = "Write_Buffer" /\ last'.ok
        \/ last'.op = "Write_Buffer_Truncated" /\ last'.cnt >= 1) =>
         LET n    == IF last'.op = "Write_Buffer" THEN last'.n ELSE last'.cnt
             src  == Stream(rb.in, last'.n)
             off  == BitAnd(rb.in, rb.mask)
             size == RB_SIZE(rb)
             tgt  == {BitAnd(U32(rb.in + i), rb.mask) : i \in 0 .. n - 1}
         IN  /\ \A i \in 0 .. n - 1 :
                    mem'[BitAnd(U32(rb.in + i), rb.mask)] = src[i + 1]
             /\ \A o \in (DOMAIN mem) \ tgt : mem'[o] = mem[o]
             /\ DOMAIN mem' = DOMAIN mem
             /\ IF n <= size - off
                THEN last'.acc = << <<off, n>> >>
                ELSE last'.acc = << <<off, size - off>>, <<0, n - (size - off)>> >>]_vars

(* A bulk write that was accepted and split in two copies of at least one  *)
(* byte each.                                                              *)
C17_Witness ==
    /\ last.op = "Write_Buffer"
    /\ last.ok
    /\ Len(last.acc) = 2
    /\ last.acc[1][2] >= 1
    /\ last.acc[2][2] >= 1

ProducerOps ==
    {"WriteByte", "Write_Buffer", "Write_Buffer_Truncated",
     "Linear_Write", "Linear_Write_Rem", "Linear_Write_Finish"}

ConsumerOps ==
    {"ReadByte", "Read_Buffer", "Peek",
     "Linear_Read", "Linear_Read_Rem", "Linear_Read_Finish", "GetLen"}

(* C18: single writer per cursor.  Every producer-side operation leaves    *)
(* out unchanged, and every consumer-side operation leaves in and the      *)
(* storage unchanged, whether it succeeds or fails; mask and pool change   *)
(* under neither; only KFIFO_Init and KFIFO_Reset write both cursors.      *)
C18_SingleWriterPerCursor ==
    [][/\ last'.op \in ProducerOps =>
              /\ rb'.out = rb.out
              /\ rb'.mask = rb.mask
              /\ rb'.pool = rb.pool
       /\ last'.op \in ConsumerOps =>
              /\ rb'.in = rb.in
              /\ mem' = mem
              /\ rb'.mask = rb.mask
              /\ rb'.pool = rb.pool
       /\ last'.op \in ProducerOps \cup ConsumerOps \cup {"Init", "Reset"}
       /\ (rb'.in # rb.in /\ rb'.out # rb.out) => last'.op \in {"Init", "Reset"}]_vars

(* A linear read commit of at least one byte has just advanced the read    *)
(* cursor while bytes are stored.                                          *)
C18_Witness ==
    /\ last.op = "Linear_Read_Finish"
    /\ last.n >= 1
    /\ rb.in # 0

(* C19: the linear read region holds only unread data.  The length         *)
(* KFIFO_Linear_Read_Rem returns is not greater than the number of stored, *)
(* unread bytes (0 on an empty buffer), so that a consumer that takes the  *)
(* whole region and commits it obtains written, unread bytes in write      *)
(* order and never moves out past in.                                      *)
C19_LinearReadRegionUnread ==
    [][/\ last'.op = "Linear_Read_Rem" => last'.cnt <= Occupied
       /\ (last'.op = "Linear_Read_Finish" /\ last'.n = last'.cnt) =>
              /\ IsPrefix(last'.out, written)
              /\ U32(rb'.in - rb'.out) <= U32(rb.in - rb.out)]_vars

CopyingOps ==
    {"WriteByte", "ReadByte", "Peek",
     "Write_Buffer", "Write_Buffer_Truncated", "Read_Buffer"}

(* C20: storage bounds.  For every request length n (n = 0 and n greater   *)
(* than the capacity included) and every reachable state, each byte that   *)
(* KFIFO_WriteByte, KFIFO_ReadByte, KFIFO_Peek, KFIFO_Write_Buffer,        *)
(* KFIFO_Write_Buffer_Truncated and KFIFO_Read_Buffer access in the        *)
(* storage is at an offset in 0 .. size - 1, each contiguous copy has      *)
(* start + length <= size, and KFIFO_Write_Buffer and KFIFO_Read_Buffer    *)
(* reject a request of more than capacity bytes without any access.        *)
C20_StorageBounds ==
    [][last'.op \in CopyingOps =>
         /\ \A k \in 1 .. Len(last'.acc) :
                LET start == last'.acc[k][1]
                    len   == last'.acc[k][2]
                IN  /\ start >= 0
                    /\ len >= 0
                    /\ start + len <= RB_SIZE(rb)
                    /\ \A j \in 0 .. len - 1 : start + j \in DOMAIN mem
         /\ (last'.op \in {"Write_Buffer", "Read_Buffer"} /\ last'.n > RB_SIZE(rb)) =>
                /\ ~last'.ok
                /\ last'.acc = <<>>
                /\ rb' = rb
                /\ mem' = mem]_vars

(* A truncated write was asked for more than capacity bytes and stored the *)
(* bytes it took in two copies, split at the physical end of the storage.  *)
C20_Witness ==
    /\ last.op = "Write_Buffer_Truncated"
    /\ last.n > RB_SIZE(rb)
    /\ Len(last.acc) = 2
    /\ last.acc[1][2] >= 1
    /\ last.acc[2][2] >= 1

(* C15: lock-free single-producer / single-consumer safety.  With one      *)
(* producer (KFIFO_WriteByte, KFIFO_Write_Buffer,                          *)
(* KFIFO_Write_Buffer_Truncated) and one consumer (KFIFO_ReadByte,         *)
(* KFIFO_Read_Buffer, KFIFO_Peek) interleaved load by load and store by    *)
(* store, the producer never stores into a slot that holds an unread byte, *)
(* the consumer never loads a byte the producer has not finished writing   *)
(* (each byte it loads is the accepted, unread byte at that position), and *)
(* the bytes the consumer obtains are the accepted bytes in order.         *)
C15_SPSC ==
    [][/\ prod'.j > prod.j => ProducerSlot(rb, prod.j) \notin UnreadOffsets
       /\ cons'.j > cons.j =>
              /\ cons.j < Len(written)
              /\ cons'.buf[cons'.j] = written[cons.j + 1]
       /\ readout' = <<>>]_vars

====
